---- MODULE Spec2Model ----
(***************************************************************************)
(* Model of repository.go: the pull-request resolution path                *)
(* (LsRemote, toRefToHash, findPullRequestIDFromRemote, selectPR and the   *)
(* prSelector event loop) and the blame attribution path (BlamePR, lookup).*)
(*                                                                         *)
(* Go strings are modelled as sequences of byte values, so that            *)
(* strings.Split, HasPrefix, TrimSuffix and the byte-wise string order     *)
(* used by sort.StringSlice are computed as the library computes them.     *)
(***************************************************************************)
EXTENDS Integers, Sequences, FiniteSets, TLC

VARIABLES
    pc,         \* position of findPullRequestIDFromRemote / selectPR
    listing,    \* bytes printed by `git ls-remote -q`
    refToHash,  \* RefToHash built by LsRemote
    prIDs,      \* candidate list handed to selectPR
    p,          \* the prSelector model held by the tea program
    prompted,   \* TRUE once tea.NewProgram(v).Run() has been entered
    lastMsg,    \* last tea.Msg delivered to Update
    outcome,    \* how findPullRequestIDFromRemote ended
    retID,      \* the identifier it returned
    lastPrIDs,  \* candidate list of the previous invocation on the same remote
    bpc,        \* position of BlamePR
    stream,     \* lines the blame child still has to write
    pipe,       \* lines written by the child and not yet read
    childExited,\* the blame child has exited
    started,    \* cmd.Start() succeeded
    waited,     \* cmd.Wait() has returned
    cached,     \* the map `cached` of BlamePR
    calls,      \* number of lookup invocations per commit
    failed,     \* commits whose lookup returned an error
    out,        \* lines printed by BlamePR
    readFailed, \* the scanner stopped on a read error
    retErr      \* the error BlamePR returns

prVars == <<pc, listing, refToHash, prIDs, p, prompted, lastMsg, outcome, retID, lastPrIDs>>

blameVars == <<bpc, stream, pipe, childExited, started, waited, cached, calls, failed, out, readFailed, retErr>>

vars == <<prVars, blameVars>>

-----------------------------------------------------------------------------
(* Bounds of the model *)

MaxListingLen == 4

MaxRecords == 4

PipeCap == 2

-----------------------------------------------------------------------------
(* Bytes and string literals *)

TAB == 9

NL == 10

SPACE == 32

refPrefix == <<114, 101, 102, 115, 47>>

refPullRequestPrefix == refPrefix \o <<112, 117, 108, 108, 47>>

refPullRequestSuffix == <<47, 104, 101, 97, 100>>

RefFeature == refPrefix \o <<104, 101, 97, 100, 115, 47, 102>>

Str12 == <<49, 50>>

Str5 == <<53>>

Str100 == <<49, 48, 48>>

StrHead == <<104, 101, 97, 100>>

PRRef(id) == refPullRequestPrefix \o id \o refPullRequestSuffix

EmptyMap == [x \in {} |-> <<>>]

-----------------------------------------------------------------------------
(* package strings *)

HasPrefix(s, prefix) == Len(s) >= Len(prefix) /\ SubSeq(s, 1, Len(prefix)) = prefix

HasSuffix(s, suffix) == Len(s) >= Len(suffix) /\ SubSeq(s, Len(s) - Len(suffix) + 1, Len(s)) = suffix

TrimPrefix(s, prefix) == IF HasPrefix(s, prefix) THEN SubSeq(s, Len(prefix) + 1, Len(s)) ELSE s

TrimSuffix(s, suffix) == IF HasSuffix(s, suffix) THEN SubSeq(s, 1, Len(s) - Len(suffix)) ELSE s

Index(s, sep) == IF \E i \in 1..Len(s) : s[i] = sep
                 THEN CHOOSE i \in 1..Len(s) : s[i] = sep /\ \A j \in 1..(i-1) : s[j] # sep
                 ELSE 0

RECURSIVE Split(_, _)
Split(s, sep) == LET i == Index(s, sep)
                 IN IF i = 0 THEN <<s>>
                    ELSE <<SubSeq(s, 1, i-1)>> \o Split(SubSeq(s, i+1, Len(s)), sep)

SplitN2(s, sep) == LET i == Index(s, sep)
                   IN IF i = 0 THEN <<s>>
                      ELSE <<SubSeq(s, 1, i-1), SubSeq(s, i+1, Len(s))>>

-----------------------------------------------------------------------------
(* package sort: sort.Sort(sort.Reverse(sort.StringSlice(x))) *)

MinInt(a, b) == IF a < b THEN a ELSE b

LessNumeric(a, b) == Len(a) < Len(b) \/ (Len(a) = Len(b) /\ \E i \in 1..Len(a) : a[i] < b[i] /\ \A j \in 1..(i-1) : a[j] = b[j])

Less(a, b) == \E i \in 1..(MinInt(Len(a), Len(b)) + 1) :
                  /\ \A j \in 1..(i-1) : a[j] = b[j]
                  /\ \/ i > Len(a) /\ i <= Len(b)
                     \/ i <= Len(a) /\ i <= Len(b) /\ a[i] < b[i]

RECURSIVE InsertDesc(_, _)
InsertDesc(x, s) == IF s = <<>> THEN <<x>>
                    ELSE IF Less(s[1], x) THEN <<x>> \o s
                    ELSE <<s[1]>> \o InsertDesc(x, Tail(s))

RECURSIVE SortFold(_)
SortFold(s) == IF s = <<>> THEN <<>> ELSE InsertDesc(s[1], SortFold(Tail(s)))

SortNone(s) == s

SortReverse(s) == SortFold(s)

-----------------------------------------------------------------------------
(* Remote reference index: repository.LsRemote and toRefToHash *)

MapPut(m, k, v) == [x \in DOMAIN m \cup {k} |-> IF x = k THEN v ELSE m[x]]

PutLineSkip(m, delimited) ==
    IF Len(delimited) < 2 THEN [panic |-> FALSE, table |-> m]
    ELSE [panic |-> FALSE, table |-> MapPut(m, delimited[2], delimited[1])]

\* lines 106-108: delimited[0], delimited[1]; an index out of range panics
PutLine(m, delimited) ==
    IF Len(delimited) < 2 THEN [panic |-> TRUE, table |-> EmptyMap]
    ELSE [panic |-> FALSE, table |-> MapPut(m, delimited[2], delimited[1])]

RECURSIVE RefFold(_, _)
RefFold(remotes, m) == IF remotes = <<>> THEN [panic |-> FALSE, table |-> m]
                       ELSE LET r == PutLine(m, Split(remotes[1], TAB))
                            IN IF r.panic THEN r ELSE RefFold(Tail(remotes), r.table)

Remotes(b) == Split(TrimSuffix(b, <<NL>>), NL)

toRefToHash(b) == RefFold(Remotes(b), EmptyMap)

-----------------------------------------------------------------------------
(* PR reference matcher *)

isPRRef(ref) == HasPrefix(ref, refPullRequestPrefix) /\ HasSuffix(ref, refPullRequestSuffix)

extractPRID(ref) == TrimSuffix(TrimPrefix(ref, refPullRequestPrefix), refPullRequestSuffix)

RECURSIVE Perms(_)
Perms(S) == IF S = {} THEN {<<>>}
            ELSE UNION {{<<x>> \o q : q \in Perms(S \ {x})} : x \in S}

\* the loop `for ref, hash := range refToHash`, visiting the keys in `order`
RECURSIVE Collect(_, _, _)
Collect(order, m, targetHash) ==
    IF order = <<>> THEN <<>>
    ELSE IF ~isPRRef(order[1]) THEN Collect(Tail(order), m, targetHash)
    ELSE IF m[order[1]] # targetHash THEN Collect(Tail(order), m, targetHash)
    ELSE <<extractPRID(order[1])>> \o Collect(Tail(order), m, targetHash)

Candidates(order, m, targetHash) == SortReverse(Collect(order, m, targetHash))

-----------------------------------------------------------------------------
(* Disambiguation selector: prSelector.Update *)

QuitKeys == {"q", "esc", "ctrl+c"}

DownKeys == {"j", "down"}

UpKeys == {"k", "up"}

Msgs == QuitKeys \cup DownKeys \cup UpKeys \cup {"enter", "x", "WindowSizeMsg"}

NoSelector == [choices |-> <<>>, cursor |-> 0, selected |-> -1]

UpdateDownUnguarded(m, msg) ==
    IF msg \in QuitKeys THEN [model |-> m, quit |-> TRUE]
    ELSE IF msg \in DownKeys
    THEN [model |-> [m EXCEPT !.cursor = m.cursor + 1], quit |-> FALSE]
    ELSE IF msg \in UpKeys
    THEN [model |-> IF m.cursor > 0 THEN [m EXCEPT !.cursor = m.cursor - 1] ELSE m,
          quit |-> FALSE]
    ELSE IF msg = "enter"
    THEN [model |-> [m EXCEPT !.selected = m.cursor], quit |-> TRUE]
    ELSE [model |-> m, quit |-> FALSE]

UpdateEnterFirst(m, msg) ==
    IF msg \in QuitKeys THEN [model |-> m, quit |-> TRUE]
    ELSE IF msg \in DownKeys
    THEN [model |-> IF m.cursor < Len(m.choices) - 1 THEN [m EXCEPT !.cursor = m.cursor + 1] ELSE m,
          quit |-> FALSE]
    ELSE IF msg \in UpKeys
    THEN [model |-> IF m.cursor > 0 THEN [m EXCEPT !.cursor = m.cursor - 1] ELSE m,
          quit |-> FALSE]
    ELSE IF msg = "enter"
    THEN [model |-> [m EXCEPT !.selected = 0], quit |-> TRUE]
    ELSE [model |-> m, quit |-> FALSE]

Update(m, msg) ==
    IF msg \in QuitKeys THEN [model |-> m, quit |-> TRUE]
    ELSE IF msg \in DownKeys
    THEN [model |-> IF m.cursor < Len(m.choices) - 1 THEN [m EXCEPT !.cursor = m.cursor + 1] ELSE m,
          quit |-> FALSE]
    ELSE IF msg \in UpKeys
    THEN [model |-> IF m.cursor > 0 THEN [m EXCEPT !.cursor = m.cursor - 1] ELSE m,
          quit |-> FALSE]
    ELSE IF msg = "enter"
    THEN [model |-> [m EXCEPT !.selected = m.cursor], quit |-> TRUE]
    ELSE [model |-> m, quit |-> FALSE]

BypassNever(ids) == FALSE

\* selectPR, line 375: a single candidate is returned without a tea program
Bypass(ids) == Len(ids) = 1

-----------------------------------------------------------------------------
(* Inputs of the pull-request path *)

HeadName == RefFeature

RECURSIVE SeqsUpTo(_, _)
SeqsUpTo(S, n) == IF n = 0 THEN {<<>>}
                  ELSE LET shorter == SeqsUpTo(S, n - 1)
                       IN shorter \cup {<<x>> \o q : x \in S, q \in {t \in shorter : Len(t) = n - 1}}

\* arbitrary short outputs over a hash byte, a name byte, TAB and NL
RawListings == SeqsUpTo({97, 114, TAB, NL}, MaxListingLen)

RefNames == <<RefFeature, PRRef(Str12), PRRef(Str5), PRRef(Str100), PRRef(StrHead), refPullRequestPrefix \o StrHead>>

Line(hash, ref) == hash \o <<TAB>> \o ref \o <<NL>>

\* well-formed lines in the order the remote prints them
Lines == <<Line(<<97>>, RefNames[1]), Line(<<98>>, RefNames[1]),
           Line(<<97>>, RefNames[2]), Line(<<98>>, RefNames[2]),
           Line(<<97>>, RefNames[3]), Line(<<98>>, RefNames[3]),
           Line(<<97>>, RefNames[4]),
           Line(<<97>>, RefNames[5]),
           Line(<<97>>, RefNames[6])>>

RECURSIVE Concat(_, _, _)
Concat(ls, keep, i) == IF i > Len(ls) THEN <<>>
                       ELSE (IF i \in keep THEN ls[i] ELSE <<>>) \o Concat(ls, keep, i + 1)

BuiltListings == {Concat(Lines, keep, 1) : keep \in SUBSET (1..Len(Lines))}

Listings == RawListings \cup BuiltListings

-----------------------------------------------------------------------------
(* The pull-request path: OpenPullRequest -> findPullRequestIDFromRemote -> selectPR *)

BlameIdle ==
    /\ bpc = "idle" /\ stream = <<>> /\ pipe = <<>> /\ childExited = FALSE
    /\ started = FALSE /\ waited = FALSE /\ cached = EmptyMap /\ calls = EmptyMap
    /\ failed = {} /\ out = <<>> /\ readFailed = FALSE /\ retErr = "nil"

Init ==
    /\ pc = "start"
    /\ listing \in Listings
    /\ refToHash = EmptyMap
    /\ prIDs = <<>>
    /\ p = NoSelector
    /\ prompted = FALSE
    /\ lastMsg = "none"
    /\ outcome = "none"
    /\ retID = <<>>
    /\ lastPrIDs = <<>>
    /\ BlameIdle

Finish(how, id) ==
    /\ pc' = "done"
    /\ outcome' = how
    /\ retID' = id

\* line 298 and lines 92-99
LsRemote ==
    /\ pc = "start"
    /\ \/ /\ Finish("error: ls-remote", <<>>)
          /\ UNCHANGED refToHash
       \/ /\ toRefToHash(listing).panic
          /\ Finish("panic", <<>>)
          /\ UNCHANGED refToHash
       \/ /\ ~toRefToHash(listing).panic
          /\ refToHash' = toRefToHash(listing).table
          /\ pc' = "listed"
          /\ UNCHANGED <<outcome, retID>>
    /\ UNCHANGED <<listing, prIDs, p, prompted, lastMsg, lastPrIDs, blameVars>>

\* lines 303-325, then selectPR up to p.Run() (lines 374-385)
FindPullRequestID ==
    /\ pc = "listed"
    /\ \/ /\ HeadName \notin DOMAIN refToHash
          /\ Finish("error: not found a current branch in remote", <<>>)
          /\ UNCHANGED <<prIDs, p, prompted>>
       \/ /\ HeadName \in DOMAIN refToHash
          /\ \E order \in Perms(DOMAIN refToHash) :
               LET ids == Candidates(order, refToHash, refToHash[HeadName])
               IN \/ /\ Len(ids) = 0
                     /\ Finish("error: not found a pull request related to current branch", <<>>)
                     /\ UNCHANGED <<prIDs, p, prompted>>
                  \/ /\ Len(ids) # 0
                     /\ Bypass(ids)
                     /\ prIDs' = ids
                     /\ Finish("ok", ids[1])
                     /\ UNCHANGED <<p, prompted>>
                  \/ /\ Len(ids) # 0
                     /\ ~Bypass(ids)
                     /\ prIDs' = ids
                     /\ p' = [choices |-> ids, cursor |-> 0, selected |-> -1]
                     /\ prompted' = TRUE
                     /\ pc' = "running"
                     /\ UNCHANGED <<outcome, retID>>
    /\ UNCHANGED <<listing, refToHash, lastMsg, lastPrIDs, blameVars>>

\* the tea program delivers one message to prSelector.Update
Deliver ==
    /\ pc = "running"
    /\ \E msg \in Msgs :
         /\ p' = Update(p, msg).model
         /\ pc' = IF Update(p, msg).quit THEN "quit" ELSE "running"
         /\ lastMsg' = msg
    /\ UNCHANGED <<listing, refToHash, prIDs, prompted, outcome, retID, lastPrIDs, blameVars>>

\* lines 385-388: p.Run() fails
RunFails ==
    /\ pc = "running"
    /\ Finish("error: run", <<>>)
    /\ UNCHANGED <<listing, refToHash, prIDs, p, prompted, lastMsg, lastPrIDs, blameVars>>

\* lines 389-393: p.Run() returned the final model after tea.Quit
SelectReturn ==
    /\ pc = "quit"
    /\ \/ /\ p.selected = -1
          /\ Finish("exit 0", <<>>)
       \/ /\ p.selected # -1
          /\ Finish("ok", prIDs[p.selected + 1])
    /\ UNCHANGED <<listing, refToHash, prIDs, p, prompted, lastMsg, lastPrIDs, blameVars>>

\* the command is invoked again against the same remote
Rerun ==
    /\ pc = "done"
    /\ pc' = "start"
    /\ lastPrIDs' = IF prIDs # <<>> THEN prIDs ELSE lastPrIDs
    /\ refToHash' = EmptyMap
    /\ prIDs' = <<>>
    /\ p' = NoSelector
    /\ prompted' = FALSE
    /\ lastMsg' = "none"
    /\ outcome' = "none"
    /\ retID' = <<>>
    /\ UNCHANGED <<listing, blameVars>>

Next == LsRemote \/ FindPullRequestID \/ Deliver \/ RunFails \/ SelectReturn \/ Rerun

Spec == Init /\ [][Next]_vars

-----------------------------------------------------------------------------
(* Properties of the pull-request path *)

Elems(s) == {s[i] : i \in 1..Len(s)}

LineFields(b) == LET r == Remotes(b) IN [i \in DOMAIN r |-> Split(r[i], TAB)]

SomeLineNotTwoFields(b) == LET f == LineFields(b) IN \E i \in DOMAIN f : Len(f[i]) # 2

SomeLineShort(b) == LET f == LineFields(b) IN \E i \in DOMAIN f : Len(f[i]) < 2

LsRemoteRan == pc # "start" /\ outcome # "error: ls-remote"

\* C2: when the candidate list has exactly one element, selectPR returns that
\* element and no tea program is created or run: no prompt, no message delivered.
C2_SingleCandidateNoPrompt ==
    Len(prIDs) = 1 =>
        /\ pc = "done"
        /\ outcome = "ok"
        /\ retID = prIDs[1]
        /\ ~prompted
        /\ p = NoSelector
        /\ lastMsg = "none"

C2_Witness == Len(prIDs) = 1 /\ pc = "done" /\ Cardinality(DOMAIN refToHash) >= 3

C4_Final ==
    (pc = "done" /\ prompted /\ Len(p.choices) >= 2) =>
        /\ lastMsg = "enter" =>
             /\ p.selected = p.cursor
             /\ p.selected \in 0..(Len(prIDs) - 1)
             /\ outcome = "ok"
             /\ retID = prIDs[p.selected + 1]
        /\ lastMsg \in QuitKeys =>
             /\ p.selected = -1
             /\ outcome = "exit 0"
             /\ retID = <<>>

C4_Step ==
    (pc = "running" /\ pc' = "quit" /\ Len(p.choices) >= 2) =>
        /\ lastMsg' \in QuitKeys \cup {"enter"}
        /\ lastMsg' = "enter" => p'.selected = p.cursor /\ p'.cursor = p.cursor
        /\ lastMsg' \in QuitKeys => p'.selected = -1

\* C4: a selector started with two or more candidates ends by confirm with
\* selected = the cursor at that moment, a valid index, and selectPR returns
\* candidates[selected]; it ends by quit/cancel with selected still -1, no
\* identifier returned and the process exiting with code 0.
C4_SelectorOutcome == []C4_Final /\ [][C4_Step]_vars

C4_Witness == pc = "done" /\ prompted /\ lastMsg = "enter" /\ p.selected = 2 /\ outcome = "ok"

C4_WitnessQuit == pc = "done" /\ prompted /\ lastMsg = "esc" /\ p.cursor = 1 /\ outcome = "exit 0"

\* C5 as stated: whenever some line of the listing does not split into exactly
\* two tab-separated fields, building the table fails and no table is returned.
C5_Original == (LsRemoteRan /\ SomeLineNotTwoFields(listing)) => outcome = "panic"

\* C5 amended: building the table aborts (index out of range) exactly when some
\* line has fewer than two tab-separated fields; otherwise a table is returned
\* that maps the second field of every line to the first field of the last line
\* carrying that second field, further fields being ignored.
C5_ShortLinePanics ==
    LET f == LineFields(listing)
        short == \E i \in DOMAIN f : Len(f[i]) < 2
    IN /\ LsRemoteRan => (short <=> outcome = "panic")
       /\ pc = "listed" =>
            /\ ~short
            /\ DOMAIN refToHash = {f[i][2] : i \in DOMAIN f}
            /\ \A i \in DOMAIN f :
                 (\A j \in DOMAIN f : j > i => f[j][2] # f[i][2]) => refToHash[f[i][2]] = f[i][1]

C5_Witness == pc = "listed" /\ \E i \in DOMAIN LineFields(listing) : Len(LineFields(listing)[i]) = 3

C5_WitnessPanic == outcome = "panic" /\ Len(Remotes(listing)) = 2 /\ Len(LineFields(listing)[1]) = 2

\* C8: two runs of the candidate computation on the same reference table and
\* target produce the same candidate sequence, whatever the map iteration order.
C8_Idempotent == (lastPrIDs # <<>> /\ prIDs # <<>>) => prIDs = lastPrIDs

C8_Witness == lastPrIDs # <<>> /\ Len(prIDs) >= 3 /\ Cardinality(Elems(prIDs)) < Len(prIDs)

ThreeCandidates == Len(prIDs) = 3 /\ Elems(prIDs) = {Str12, Str5, Str100}

\* C9 as stated: the candidates "12", "5", "100" are ordered "5", "100", "12".
C9_Original == ThreeCandidates => prIDs = <<Str5, Str100, Str12>>

\* C9 amended: the candidates "12", "5", "100", in any input order, are ordered
\* "5", "12", "100" by the descending byte-wise string sort.
C9_LexicalDescending == ThreeCandidates => prIDs = <<Str5, Str12, Str100>>

C9_Witness == ThreeCandidates /\ pc = "running"

C10_Range == pc \in {"running", "quit"} => p.cursor \in 0..(Len(p.choices) - 1)

C10_Step ==
    (pc = "running" /\ pc' = "running") =>
        /\ lastMsg' \in DownKeys =>
             p'.cursor = IF p.cursor < Len(p.choices) - 1 THEN p.cursor + 1 ELSE p.cursor
        /\ lastMsg' \in UpKeys =>
             p'.cursor = IF p.cursor > 0 THEN p.cursor - 1 ELSE p.cursor
        /\ p'.selected = p.selected
        /\ p'.selected = -1
        /\ p'.choices = p.choices

\* C10: move-down increases the cursor by one only when cursor < last index,
\* move-up decreases it by one only when cursor > 0, neither touches selected;
\* so 0 <= cursor <= len(choices)-1 in every reachable state of the selector.
C10_CursorInRange == []C10_Range /\ [][C10_Step]_vars

C10_Witness == pc = "running" /\ lastMsg = "j" /\ p.cursor = Len(p.choices) - 1 /\ Len(p.choices) >= 3

-----------------------------------------------------------------------------
(* Blame attribution: lookup *)

Digits7 == <<55>>

Digits007 == <<48, 48, 55>>

\* twenty nines: larger than the largest int
DigitsHuge == [i \in 1..20 |-> 57]

MaxIntDigits == <<57, 50, 50, 51, 51, 55, 50, 48, 51, 54, 56, 53, 52, 55, 55, 53, 56, 48, 55>>

RECURSIVE StripZeros(_)
StripZeros(d) == IF Len(d) > 1 /\ d[1] = 48 THEN StripZeros(Tail(d)) ELSE d

\* strconv.Atoi fails with a range error above the largest int
AtoiFails(d) == \/ Len(StripZeros(d)) > Len(MaxIntDigits)
                \/ Len(StripZeros(d)) = Len(MaxIntDigits) /\ Less(MaxIntDigits, StripZeros(d))

\* fmt.Sprintf("PR #%d", id) of the parsed number
PRLabel(d) == <<80, 82, SPACE, 35>> \o StripZeros(d)

\* What `git show --oneline <commit>` does: the command fails, or prints a
\* summary that the merge pattern does not match, or one it matches with the
\* captured digits num.
Replies == {[kind |-> "fail", num |-> <<>>], [kind |-> "other", num |-> <<>>]}
           \cup {[kind |-> "merge", num |-> d] : d \in {Digits7, Digits007, DigitsHuge}}

lookupAbsorb(commit, reply) ==
    IF reply.kind = "fail" THEN [label |-> commit, err |-> FALSE]
    ELSE IF reply.kind = "other" THEN [label |-> commit, err |-> FALSE]
    ELSE IF AtoiFails(reply.num) THEN [label |-> commit, err |-> FALSE]
    ELSE [label |-> PRLabel(reply.num), err |-> FALSE]

lookup(commit, reply) ==
    IF reply.kind = "fail" THEN [label |-> commit, err |-> TRUE]
    ELSE IF reply.kind = "other" THEN [label |-> commit, err |-> FALSE]
    ELSE IF AtoiFails(reply.num) THEN [label |-> commit, err |-> FALSE]
    ELSE [label |-> PRLabel(reply.num), err |-> FALSE]

-----------------------------------------------------------------------------
(* Blame attribution: BlamePR *)

CommitA == <<97, 49>>

CommitB == <<98, 50, 99>>

\* "a1 x", "b2c y z" and a line without a space
BlameLines == {CommitA \o <<SPACE, 120>>, CommitB \o <<SPACE, 121, SPACE, 122>>, CommitA}

Streams == SeqsUpTo(BlameLines, MaxRecords)

CachedNever(cache, commit) == FALSE

\* line 518: _, ok := cached[commit]
Cached(cache, commit) == commit \in DOMAIN cache

MaxInt(a, b) == IF a < b THEN b ELSE a

\* fmt.Printf("%-<padding>s %s\n", label, src)
Format(padding, label, src) ==
    label \o [i \in 1..(padding - Len(label)) |-> SPACE] \o <<SPACE>> \o src \o <<NL>>

\* lines 526-533
Emit(commit, label, src) ==
    [commit |-> commit, label |-> label, text |-> Format(MaxInt(Len(commit), Len(label)), label, src)]

Count(m, k) == IF k \in DOMAIN m THEN m[k] ELSE 0

PRIdle ==
    /\ pc = "idle" /\ listing = <<>> /\ refToHash = EmptyMap /\ prIDs = <<>>
    /\ p = NoSelector /\ prompted = FALSE /\ lastMsg = "none" /\ outcome = "none"
    /\ retID = <<>> /\ lastPrIDs = <<>>

InitBlame ==
    /\ bpc = "start"
    /\ stream \in Streams
    /\ pipe = <<>>
    /\ childExited = FALSE
    /\ started = FALSE
    /\ waited = FALSE
    /\ cached = EmptyMap
    /\ calls = EmptyMap
    /\ failed = {}
    /\ out = <<>>
    /\ readFailed = FALSE
    /\ retErr = "nil"
    /\ PRIdle

\* lines 501-508: StdoutPipe or Start fails
StartFails ==
    /\ bpc = "start"
    /\ bpc' = "returned"
    /\ retErr' = "error: start"
    /\ UNCHANGED <<stream, pipe, childExited, started, waited, cached, calls, failed, out, readFailed, prVars>>

\* line 505: the child runs; line 509 defers cmd.Wait()
Start ==
    /\ bpc = "start"
    /\ bpc' = "scan"
    /\ started' = TRUE
    /\ UNCHANGED <<stream, pipe, childExited, waited, cached, calls, failed, out, readFailed, retErr, prVars>>

\* the child writes its next line into the pipe, blocking while the pipe is full
ChildWrite ==
    /\ started /\ ~childExited
    /\ stream # <<>>
    /\ Len(pipe) < PipeCap
    /\ pipe' = Append(pipe, stream[1])
    /\ stream' = Tail(stream)
    /\ UNCHANGED <<bpc, childExited, started, waited, cached, calls, failed, out, readFailed, retErr, prVars>>

\* the child has written everything and exits, closing its end of the pipe
ChildExit ==
    /\ started /\ ~childExited
    /\ stream = <<>>
    /\ childExited' = TRUE
    /\ UNCHANGED <<bpc, stream, pipe, started, waited, cached, calls, failed, out, readFailed, retErr, prVars>>

\* lines 514-534: one iteration of the scan loop
ScanRecord ==
    /\ bpc = "scan"
    /\ pipe # <<>>
    /\ pipe' = Tail(pipe)
    /\ LET commitAndSrc == SplitN2(pipe[1], SPACE)
           commit == commitAndSrc[1]
       IN \/ /\ Len(commitAndSrc) < 2
             /\ bpc' = "panicking"
             /\ UNCHANGED <<cached, calls, failed, out, retErr>>
          \/ /\ Len(commitAndSrc) = 2
             /\ Cached(cached, commit)
             /\ out' = Append(out, Emit(commit, cached[commit], commitAndSrc[2]))
             /\ UNCHANGED <<bpc, cached, calls, failed, retErr>>
          \/ /\ Len(commitAndSrc) = 2
             /\ ~Cached(cached, commit)
             /\ \E reply \in Replies :
                  /\ calls' = MapPut(calls, commit, Count(calls, commit) + 1)
                  /\ failed' = IF reply.kind = "fail" THEN failed \cup {commit} ELSE failed
                  /\ \/ /\ lookup(commit, reply).err
                        /\ retErr' = "error: lookup"
                        /\ bpc' = "waiting"
                        /\ UNCHANGED <<cached, out>>
                     \/ /\ ~lookup(commit, reply).err
                        /\ cached' = MapPut(cached, commit, lookup(commit, reply).label)
                        /\ out' = Append(out, Emit(commit, lookup(commit, reply).label, commitAndSrc[2]))
                        /\ UNCHANGED <<bpc, retErr>>
    /\ UNCHANGED <<stream, childExited, started, waited, readFailed, prVars>>

\* line 514 and 535: Scan reports the end of the stream; BlamePR returns err,
\* the variable assigned by cmd.Start()
ScanEOF ==
    /\ bpc = "scan"
    /\ pipe = <<>>
    /\ childExited
    /\ bpc' = "waiting"
    /\ retErr' = "nil"
    /\ UNCHANGED <<stream, pipe, childExited, started, waited, cached, calls, failed, out, readFailed, prVars>>

\* line 514 and 535: Scan stops on a read error, which scanner.Err() would
\* report; BlamePR never asks and returns err, the variable assigned by cmd.Start()
ScanReadError ==
    /\ bpc = "scan"
    /\ readFailed' = TRUE
    /\ bpc' = "waiting"
    /\ retErr' = "nil"
    /\ UNCHANGED <<stream, pipe, childExited, started, waited, cached, calls, failed, out, prVars>>

\* lines 509-511: the deferred cmd.Wait() returns once the child has exited
Wait ==
    /\ bpc \in {"waiting", "panicking"}
    /\ childExited
    /\ waited' = TRUE
    /\ bpc' = IF bpc = "waiting" THEN "returned" ELSE "panicked"
    /\ UNCHANGED <<stream, pipe, childExited, started, cached, calls, failed, out, readFailed, retErr, prVars>>

NextBlame == StartFails \/ Start \/ ChildWrite \/ ChildExit \/ ScanRecord \/ ScanEOF \/ ScanReadError \/ Wait

SpecBlame == InitBlame /\ [][NextBlame]_vars

-----------------------------------------------------------------------------
(* Properties of the blame path *)

\* C1: during one run of BlamePR the reverse lookup is invoked at most once per
\* commit hash, however many records reference it, and every line printed for
\* a commit carries the same label.
C1_LookupOncePerCommit ==
    /\ \A c \in DOMAIN calls : calls[c] <= 1
    /\ \A i, j \in DOMAIN out : out[i].commit = out[j].commit => out[i].label = out[j].label
    /\ \A i \in DOMAIN out : Count(calls, out[i].commit) = 1 /\ cached[out[i].commit] = out[i].label

C1_Witness ==
    /\ Len(out) = 3
    /\ out[1].commit = CommitA /\ out[2].commit = CommitB /\ out[3].commit = CommitA
    /\ out[1].label = PRLabel(Digits7)
    /\ calls[CommitA] = 1

\* C3 as stated: when the lookup of a commit fails, the raw commit hash becomes
\* its label, processing continues and BlamePR does not fail because of it.
C3_Original ==
    \A c \in failed : Cached(cached, c) /\ cached[c] = c /\ retErr # "error: lookup"

\* C3 amended: when the lookup of a commit fails, no label is cached and no
\* line is printed for that commit, BlamePR reads no further record and returns
\* the lookup's error.
C3_LookupFailurePropagates ==
    \A c \in failed :
        /\ bpc \in {"waiting", "returned"}
        /\ retErr = "error: lookup"
        /\ ~Cached(cached, c)
        /\ \A i \in DOMAIN out : out[i].commit # c
        /\ failed = {c}

C3_StopsReading ==
    (failed # {} /\ failed' # {}) => UNCHANGED <<out, cached, calls, retErr>>

C3_Propagates == []C3_LookupFailurePropagates /\ [][C3_StopsReading]_vars

C3_Witness == failed = {CommitA} /\ bpc = "returned" /\ Len(out) = 1 /\ out[1].commit = CommitB

\* C6: when reading the blame stream fails part-way, BlamePR returns a non-nil
\* error; it returns nil only when the stream ended normally and every lookup
\* succeeded.
C6_ReadErrorSurfaces ==
    bpc = "returned" =>
        /\ readFailed => retErr # "nil"
        /\ retErr = "nil" => ~readFailed /\ failed = {} /\ stream = <<>> /\ pipe = <<>>

\* C7: once the child has been started BlamePR returns only after waiting on it,
\* also on the early return caused by a lookup error, and on that path it does
\* come to return: it is never left waiting on a child that is blocked writing
\* to the pipe nobody drains (while BlamePR has not returned, some step of it or
\* of the child is possible).
C7_WaitsAndReturns ==
    /\ (started /\ bpc = "returned") => waited
    /\ (started /\ retErr = "error: lookup") => (bpc = "returned" \/ ENABLED NextBlame)

====
